---------------------------- MODULE Spec2Model ----------------------------
(***************************************************************************)
(* The live audio session manager of the voice view                        *)
(* (src/components/VoiceChatView.tsx) and of the video view (the           *)
(* VideoChatView component held in src/components/Sidebar.tsx), as one     *)
(* state machine.  The variable `view` selects the component; where the    *)
(* two components differ the actions branch on it.                         *)
(*                                                                         *)
(* Every event-loop task is one action: a user gesture, the settling of    *)
(* getUserMedia, a callback of the live session, a timer callback, an      *)
(* audio callback.  Work that a handler leaves behind a real asynchronous  *)
(* boundary (the await in handleDisconnect, the session promise) is a      *)
(* separate action.  decodeAudioData has no suspension point of its own,   *)
(* so the code after `await decodeAudioData(...)` resumes in the microtask *)
(* checkpoint of the same task and belongs to the onmessage action.        *)
(*                                                                         *)
(* Each call of handleConnect is an "attempt", numbered 1..nAtt.  The      *)
(* objects an attempt creates (media stream, the two audio contexts, the   *)
(* capture node, the live session) are the fields of att[a]; the refs of   *)
(* the component hold an attempt number, 0 standing for null.              *)
(***************************************************************************)
EXTENDS Naturals, Integers, Sequences, FiniteSets, TLC

(* ------------------------------ bounds -------------------------------- *)
MaxAttempts == 2
MaxText == 2
MaxTurns == 2
MaxSources == 3
MaxDur == 2
MaxTime == 3
MaxFrames == 2
MaxEdge == 30
\* length of one Tick of the model, in milliseconds
TICK_MS == 400

(* ------------------------- program constants -------------------------- *)
VAD_SILENCE_TIMEOUT_VOICE == 800
VAD_SILENCE_TIMEOUT_VIDEO == 500
BOT_SPEAKING_DECAY == 150

\* a setTimeout delay in whole ticks, rounded up
Ticks(ms) == (ms + TICK_MS - 1) \div TICK_MS

VAD_SILENCE_TIMEOUT(v) ==
  IF v = "voice" THEN Ticks(VAD_SILENCE_TIMEOUT_VOICE)
                 ELSE Ticks(VAD_SILENCE_TIMEOUT_VIDEO)

Views == {"voice", "video"}

Attempts == 1..MaxAttempts

SPACE == 0

VARIABLES
  view,                    \* which component this is
  mounted,                 \* the component is mounted
  status,                  \* useState status
  transcript,              \* useState transcript
  currentInput,            \* useState currentInput  (user PendingUtterance)
  currentOutput,           \* useState currentOutput (agent PendingUtterance)
  isUserSpeaking,          \* useState isSpeaking / isUserSpeaking
  isBotSpeaking,           \* useState isBotSpeaking (video only)
  sessionPromiseRef,       \* refs: attempt number or 0 (null)
  inputAudioContextRef,
  outputAudioContextRef,
  mediaStreamRef,
  scriptProcessorRef,
  sourcesRef,              \* set of playback unit numbers
  nextStartTimeRef,        \* PlaybackCursor
  silenceTimerRef,         \* [ref, pending, left]
  botSpeakingTimeoutRef,   \* [ref, pending, left]
  att,                     \* the objects of each handleConnect call
  nAtt,                    \* number of handleConnect calls accepted so far
  src,                     \* the playback units created so far
  awaiting,                \* handleDisconnect calls suspended at `await cleanup()`
  nFrames,                 \* number of frames the capture nodes have delivered
  last,                    \* the task that ran last (history)
  audioSettings,           \* useState audioSettings (video only)
  localStorage,            \* the item stored under the key 'audioSettings'
  decodeCall               \* the last call of decodeAudioData and what it gave

vars == << view, mounted, status, transcript, currentInput, currentOutput,
           isUserSpeaking, isBotSpeaking, sessionPromiseRef,
           inputAudioContextRef, outputAudioContextRef, mediaStreamRef,
           scriptProcessorRef, sourcesRef, nextStartTimeRef, silenceTimerRef,
           botSpeakingTimeoutRef, att, nAtt, src, awaiting, nFrames, last,
           audioSettings, localStorage, decodeCall >>

envVars == << audioSettings, localStorage, decodeCall >>

uiVars == << status, transcript, currentInput, currentOutput,
             isUserSpeaking, isBotSpeaking >>

refVars == << sessionPromiseRef, inputAudioContextRef, outputAudioContextRef,
              mediaStreamRef, scriptProcessorRef >>

(* ------------------------------- text --------------------------------- *)
\* A string is a sequence of characters.  A character is SPACE or the number
\* of the session whose remote end produced it, so that the origin of every
\* piece of committed text can be read off the transcript.
Chars == {SPACE} \cup Attempts

\* String.prototype.trim() followed by the truthiness test of the result
TrimNonEmpty(t) == \E i \in 1..Len(t) : t[i] # SPACE

(* ------------------------------ objects ------------------------------- *)
NoAttempt ==
  [ pc        |-> "none",    \* handleConnect: none | mic (awaiting getUserMedia) | done
    mic       |-> "none",    \* MediaStream: none | live | stopped | denied
    inCtx     |-> "none",    \* AudioContext(16000): none | running | closed
    outCtx    |-> "none",    \* AudioContext(24000): none | running | closed
    ctime     |-> 0,         \* currentTime of the output context
    node      |-> "none",    \* ScriptProcessorNode: none | wired | detached
    nodeCtx   |-> 0,         \* the input context and the stream the node is wired to
    nodeMic   |-> 0,
    sess      |-> "none",    \* live session: none | opening | open | errored | closed
    resolved  |-> FALSE,     \* the promise connectLiveSession returned has resolved
    closeReq  |-> "no",      \* session.close(): no | queued (on the promise) | asked
    txq       |-> << >>,     \* frames chained on the pending promise
    rx        |-> << >>,     \* frames handed to sendRealtimeInput, in order
    capIn     |-> << >>,     \* currentInput / currentOutput as the closures of this
    capOut    |-> << >>,     \*   handleConnect call captured them
    alerted   |-> FALSE,     \* alert() was shown by this call
    cancelled |-> FALSE,     \* history: handleDisconnect ran while this call was connecting
    left      |-> FALSE ]    \* history: handleDisconnect ran on this call's session

NoTimer == [ ref |-> FALSE, pending |-> FALSE, left |-> 0 ]

NoLast == [ op |-> "init", a |-> 0, threw |-> FALSE, ok |-> TRUE ]

(* --------------------------- audio settings --------------------------- *)
\* the three fields of AudioSettings, in the order the literal writes them
SettingKeys == << "noiseSuppression", "echoCancellation", "autoGainControl" >>

\* JSON texts of a field's value: the two booleans, and a number
FieldTexts == {"true", "false", "1"}

\* A JSON value: null, a number, or an object holding some of the fields.
JsonNull == [ kind |-> "null", fields |-> << >> ]
JsonNumber == [ kind |-> "number", fields |-> << >> ]

KeySet == { SettingKeys[i] : i \in DOMAIN SettingKeys }

JsonObjects ==
  { [ kind |-> "object", fields |-> f ] :
      f \in UNION { [K -> FieldTexts] : K \in SUBSET KeySet } }

JsonValues == {JsonNull, JsonNumber} \cup JsonObjects

\* { noiseSuppression: true, echoCancellation: true, autoGainControl: true }
DefaultAudioSettings ==
  [ kind |-> "object", fields |-> [k \in KeySet |-> "true"] ]

RECURSIVE Joined(_)
Joined(parts) ==
  IF parts = << >> THEN ""
  ELSE IF Len(parts) = 1 THEN parts[1]
  ELSE parts[1] \o "," \o Joined(Tail(parts))

Member(v, k) ==
  IF k \in DOMAIN v.fields THEN << "\"" \o k \o "\":" \o v.fields[k] >> ELSE << >>

\* JSON.stringify
JSONstringify(v) ==
  CASE v.kind = "null" -> "null"
    [] v.kind = "number" -> "5"
    [] OTHER -> "{" \o Joined(Member(v, SettingKeys[1]) \o Member(v, SettingKeys[2])
                               \o Member(v, SettingKeys[3])) \o "}"

\* JSON.parse: the value the text denotes, or a SyntaxError
JSONparse(text) ==
  IF \E v \in JsonValues : JSONstringify(v) = text
  THEN [ threw |-> FALSE, value |-> CHOOSE v \in JsonValues : JSONstringify(v) = text ]
  ELSE [ threw |-> TRUE, value |-> JsonNull ]

\* localStorage.getItem('audioSettings'): null, or the text stored
NoItem == [ present |-> FALSE, text |-> "" ]
Item(text) == [ present |-> TRUE, text |-> text ]

\* what a browser profile may hold under the key: nothing, the empty
\* string, texts that are not JSON, and the texts of the JSON values
StoredItems ==
  {NoItem} \cup { Item(t) : t \in {"", "{", "undefined"} }
  \cup { Item(JSONstringify(v)) : v \in JsonValues }

\* the initialiser of useState<AudioSettings>
InitialAudioSettings(saved) ==
  IF saved.present /\ saved.text # ""
  THEN IF JSONparse(saved.text).threw THEN DefaultAudioSettings
       ELSE JSONparse(saved.text).value
  ELSE DefaultAudioSettings

\* an object with the three fields, each a boolean
IsAudioSettings(v) ==
  /\ v.kind = "object"
  /\ DOMAIN v.fields = KeySet
  /\ \A k \in KeySet : v.fields[k] \in {"true", "false"}

(* ------------------------------ pcm decode ---------------------------- *)
MaxBytes == 6

\* the byte values the payloads are built from
ByteValues == {0, 128}

\* the numChannels a caller may pass; both views pass 1
ChannelCounts == {1, 2}

Payloads == UNION { [1..n -> ByteValues] : n \in 0..MaxBytes }

NoCall == [ called |-> FALSE, data |-> << >>, numChannels |-> 1,
            threw |-> "none", channels |-> << >> ]

\* element i (from 0) of new Int16Array(data.buffer): two bytes, low byte
\* first, read as a signed 16-bit number
Int16At(data, i) ==
  LET u == data[2 * i + 1] + 256 * data[2 * i + 2]
  IN  IF u >= 32768 THEN u - 65536 ELSE u

\* the component after its first render, in a browser whose storage holds
\* `saved` under the key
Constructed(saved) ==
  /\ view \in Views
  /\ mounted = TRUE
  /\ status = "idle"
  /\ transcript = << >>
  /\ currentInput = << >>
  /\ currentOutput = << >>
  /\ isUserSpeaking = FALSE
  /\ isBotSpeaking = FALSE
  /\ sessionPromiseRef = 0
  /\ inputAudioContextRef = 0
  /\ outputAudioContextRef = 0
  /\ mediaStreamRef = 0
  /\ scriptProcessorRef = 0
  /\ sourcesRef = {}
  /\ nextStartTimeRef = 0
  /\ silenceTimerRef = NoTimer
  /\ botSpeakingTimeoutRef = NoTimer
  /\ att = [a \in Attempts |-> NoAttempt]
  /\ nAtt = 0
  /\ src = << >>
  /\ awaiting = {}
  /\ nFrames = 0
  /\ last = NoLast
  /\ localStorage = saved
  /\ audioSettings = IF view = "video" THEN InitialAudioSettings(saved)
                     ELSE DefaultAudioSettings
  /\ decodeCall = NoCall

\* a browser that has never stored the settings
Init == Constructed(NoItem)

\* a React state setter: ignored once the component is unmounted
Set(cur, new) == IF mounted THEN new ELSE cur

(* ------------------------- handleSetFeedback -------------------------- *)
Feedbacks == {"liked", "disliked"}

\* an updater that sets the feedback and never clears it
C31_Mutant_WithFeedback(prev, id, feedback) ==
  [i \in DOMAIN prev |->
     IF prev[i].id = id THEN [prev[i] EXCEPT !.feedback = feedback] ELSE prev[i]]

\* an updater that gives the feedback to every item
C30_Mutant_WithFeedback(prev, id, feedback) ==
  [i \in DOMAIN prev |-> [prev[i] EXCEPT !.feedback = feedback]]

\* the updater handleSetFeedback hands to setTranscript; "none" stands for
\* an undefined feedback
WithFeedback(prev, id, feedback) ==
  [i \in DOMAIN prev |->
     IF prev[i].id = id
     THEN [prev[i] EXCEPT !.feedback = IF @ = feedback THEN "none" ELSE feedback]
     ELSE prev[i]]

\* handleSetFeedback, called by the like / dislike button of a rendered
\* item; TranscriptMessage renders the buttons for the agent's items only
HandleSetFeedback(id, feedback) ==
  /\ mounted
  /\ \E i \in DOMAIN transcript :
       transcript[i].id = id /\ transcript[i].author = "model"
  /\ transcript' = WithFeedback(transcript, id, feedback)
  /\ last' = [ op |-> "feedback", a |-> 0, threw |-> FALSE, ok |-> TRUE ]
  /\ UNCHANGED << envVars, view, mounted, status, currentInput, currentOutput,
                  isUserSpeaking, isBotSpeaking, refVars, sourcesRef,
                  nextStartTimeRef, silenceTimerRef, botSpeakingTimeoutRef,
                  att, nAtt, src, awaiting, nFrames >>

(* ------------------------------ cleanup ------------------------------- *)
\* clearTimeout on a timer ref.  The voice view also nulls the silence ref.
ClearTimer(t, nullIt) ==
  IF t.ref THEN [ ref |-> ~nullIt, pending |-> FALSE, left |-> 0 ] ELSE t

\* The video view tests `ref.current?.state !== 'closed'` and then calls
\* ref.current.close(): with a null ref the test is true and the call throws
\* a TypeError, which ends cleanup there.
CleanupThrowsAtInput == view = "video" /\ inputAudioContextRef = 0

CleanupThrowsAtOutput ==
  view = "video" /\ inputAudioContextRef # 0 /\ outputAudioContextRef = 0

CleanupThrows == CleanupThrowsAtInput \/ CleanupThrowsAtOutput

\* the objects after the synchronous part of cleanup(), starting from A
Cleaned(A) ==
  LET A1 == IF scriptProcessorRef # 0
            THEN [A EXCEPT ![scriptProcessorRef].node = "detached"] ELSE A
      A2 == IF mediaStreamRef # 0
            THEN [A1 EXCEPT ![mediaStreamRef].mic = "stopped"] ELSE A1
      A3 == IF sessionPromiseRef # 0
            THEN [A2 EXCEPT ![sessionPromiseRef].closeReq =
                     IF A2[sessionPromiseRef].resolved THEN "asked"
                     ELSE IF @ = "asked" THEN "asked" ELSE "queued"]
            ELSE A2
      A4 == IF inputAudioContextRef # 0 /\ A3[inputAudioContextRef].inCtx # "closed"
            THEN [A3 EXCEPT ![inputAudioContextRef].inCtx = "closed"] ELSE A3
      A5 == IF ~CleanupThrowsAtInput /\ outputAudioContextRef # 0
               /\ A4[outputAudioContextRef].outCtx # "closed"
            THEN [A4 EXCEPT ![outputAudioContextRef].outCtx = "closed"] ELSE A4
  IN A5

\* cleanup() up to its `await`: everything it does to refs and objects
Cleanup(A) ==
  /\ silenceTimerRef' = ClearTimer(silenceTimerRef, view = "voice")
  /\ botSpeakingTimeoutRef' = ClearTimer(botSpeakingTimeoutRef, FALSE)
  /\ scriptProcessorRef' = 0
  /\ mediaStreamRef' = 0
  /\ src' = [s \in DOMAIN src |->
               IF s \in sourcesRef THEN [src[s] EXCEPT !.st = "stopped"] ELSE src[s]]
  /\ sourcesRef' = {}
  /\ sessionPromiseRef' = 0
  /\ inputAudioContextRef' = 0
  /\ outputAudioContextRef' = IF CleanupThrowsAtInput THEN outputAudioContextRef ELSE 0
  /\ att' = Cleaned(A)

(* --------------------------- handleConnect ---------------------------- *)
\* a guard that refuses a connect only once the session is open
C4_Mutant_ConnectRefused == status = "connected"

\* the guard at the top of handleConnect
ConnectRefused == status \in {"connected", "connecting"}

\* handleConnect up to `await getUserMedia`
HandleConnect ==
  /\ mounted
  /\ IF ConnectRefused
     THEN /\ last' = [ op |-> "connect", a |-> 0, threw |-> FALSE, ok |-> FALSE ]
          /\ UNCHANGED << envVars, view, mounted, uiVars, refVars, sourcesRef,
                          nextStartTimeRef, silenceTimerRef, botSpeakingTimeoutRef,
                          att, nAtt, src, awaiting, nFrames >>
     ELSE /\ nAtt < MaxAttempts
          /\ nAtt' = nAtt + 1
          /\ status' = "connecting"
          /\ transcript' = << >>
          /\ currentInput' = << >>
          /\ currentOutput' = << >>
          /\ isUserSpeaking' = FALSE
          /\ isBotSpeaking' = FALSE
          /\ att' = [att EXCEPT ![nAtt + 1] =
                       [NoAttempt EXCEPT !.pc = "mic",
                                         !.capIn = currentInput,
                                         !.capOut = currentOutput]]
          /\ last' = [ op |-> "connect", a |-> nAtt + 1, threw |-> FALSE, ok |-> TRUE ]
          /\ UNCHANGED << envVars, view, mounted, refVars, sourcesRef, nextStartTimeRef,
                          silenceTimerRef, botSpeakingTimeoutRef, src, awaiting, nFrames >>

\* the catch block of handleConnect
ConnectCatch(a, A) ==
  /\ status' = Set(status, "error")
  /\ att' = [A EXCEPT ![a].alerted = TRUE, ![a].pc = "done"]

\* the outcomes of the rest of handleConnect's try block
ConnectOutcomes == {"ok", "denied", "inCtxThrows", "outCtxThrows", "sessionThrows"}

\* handleConnect from the settling of getUserMedia to its end
MicSettled(a, r) ==
  /\ att[a].pc = "mic"
  /\ r \in ConnectOutcomes
  /\ last' = [ op |-> "mic", a |-> a, threw |-> r # "ok", ok |-> r = "ok" ]
  /\ CASE r = "denied" ->
            /\ ConnectCatch(a, [att EXCEPT ![a].mic = "denied"])
            /\ UNCHANGED << refVars, nextStartTimeRef >>
       [] r = "inCtxThrows" ->
            /\ mediaStreamRef' = a
            /\ ConnectCatch(a, [att EXCEPT ![a].mic = "live"])
            /\ UNCHANGED << sessionPromiseRef, inputAudioContextRef,
                            outputAudioContextRef, scriptProcessorRef,
                            nextStartTimeRef >>
       [] r = "outCtxThrows" ->
            /\ mediaStreamRef' = a
            /\ inputAudioContextRef' = a
            /\ ConnectCatch(a, [att EXCEPT ![a].mic = "live", ![a].inCtx = "running"])
            /\ UNCHANGED << sessionPromiseRef, outputAudioContextRef,
                            scriptProcessorRef, nextStartTimeRef >>
       [] r = "sessionThrows" ->
            /\ mediaStreamRef' = a
            /\ inputAudioContextRef' = a
            /\ outputAudioContextRef' = a
            /\ nextStartTimeRef' = 0
            /\ ConnectCatch(a, [att EXCEPT ![a].mic = "live", ![a].inCtx = "running",
                                           ![a].outCtx = "running"])
            /\ UNCHANGED << sessionPromiseRef, scriptProcessorRef >>
       [] r = "ok" ->
            /\ mediaStreamRef' = a
            /\ inputAudioContextRef' = a
            /\ outputAudioContextRef' = a
            /\ nextStartTimeRef' = 0
            /\ sessionPromiseRef' = a
            /\ att' = [att EXCEPT ![a].mic = "live", ![a].inCtx = "running",
                                  ![a].outCtx = "running", ![a].sess = "opening",
                                  ![a].pc = "done"]
            /\ UNCHANGED << status, scriptProcessorRef >>
  /\ UNCHANGED << envVars, view, mounted, transcript, currentInput, currentOutput,
                  isUserSpeaking, isBotSpeaking, sourcesRef, silenceTimerRef,
                  botSpeakingTimeoutRef, nAtt, src, awaiting, nFrames >>

(* -------------------- handleDisconnect and unmount -------------------- *)
\* an attempt that is still connecting: its getUserMedia or its session open is pending
Connecting(a) == att[a].pc = "mic" \/ att[a].sess = "opening"

\* cleanup() has nothing to wait for: no session promise and no context to
\* close, so `await cleanup()` resumes in the microtasks of the same task
CleanupSettlesAtOnce ==
  /\ sessionPromiseRef = 0
  /\ inputAudioContextRef = 0 \/ att[inputAudioContextRef].inCtx = "closed"
  /\ outputAudioContextRef = 0 \/ att[outputAudioContextRef].outCtx = "closed"

\* handleDisconnect up to the suspension of `await cleanup()`, and through
\* to its end when the await has nothing to wait for.  When cleanup throws,
\* the await rejects and the rest of handleDisconnect never runs.
HandleDisconnect ==
  LET resumes == ~CleanupThrows /\ CleanupSettlesAtOnce IN
  /\ mounted
  /\ status' = "idle"
  /\ Cleanup([a \in Attempts |->
                IF status = "connecting" /\ Connecting(a)
                THEN [att[a] EXCEPT !.cancelled = TRUE, !.left = TRUE]
                ELSE IF a = sessionPromiseRef
                THEN [att[a] EXCEPT !.left = TRUE] ELSE att[a]])
  /\ awaiting' = IF CleanupThrows \/ resumes THEN awaiting
                 ELSE awaiting \cup {sessionPromiseRef}
  /\ currentInput' = IF resumes THEN << >> ELSE currentInput
  /\ currentOutput' = IF resumes THEN << >> ELSE currentOutput
  /\ isUserSpeaking' = IF resumes THEN FALSE ELSE isUserSpeaking
  /\ isBotSpeaking' = IF resumes THEN FALSE ELSE isBotSpeaking
  /\ last' = [ op |-> "disconnect", a |-> sessionPromiseRef,
               threw |-> CleanupThrows, ok |-> ~CleanupThrows ]
  /\ UNCHANGED << envVars, view, mounted, transcript, nextStartTimeRef, nAtt, nFrames >>

\* the promise `sessionPromiseRef.current.then(close).catch(log)` has settled
ClosePromiseSettled(w) ==
  IF w = 0 THEN TRUE ELSE att[w].resolved \/ att[w].sess \in {"errored", "closed"}

\* handleDisconnect after `await cleanup()`
DisconnectResume(w) ==
  /\ w \in awaiting
  /\ ClosePromiseSettled(w)
  /\ awaiting' = awaiting \ {w}
  /\ currentInput' = Set(currentInput, << >>)
  /\ currentOutput' = Set(currentOutput, << >>)
  /\ isUserSpeaking' = Set(isUserSpeaking, FALSE)
  /\ isBotSpeaking' = Set(isBotSpeaking, FALSE)
  /\ last' = [ op |-> "disconnected", a |-> w, threw |-> FALSE, ok |-> TRUE ]
  /\ UNCHANGED << envVars, view, mounted, status, transcript, refVars, sourcesRef,
                  nextStartTimeRef, silenceTimerRef, botSpeakingTimeoutRef,
                  att, nAtt, src, nFrames >>

\* the effect cleanup of useEffect: cleanup() is called and not awaited
Unmount ==
  /\ mounted
  /\ mounted' = FALSE
  /\ Cleanup(att)
  /\ last' = [ op |-> "unmount", a |-> sessionPromiseRef,
               threw |-> CleanupThrows, ok |-> ~CleanupThrows ]
  /\ UNCHANGED << envVars, view, uiVars, nextStartTimeRef, nAtt, awaiting, nFrames >>

(* ----------------------- live session callbacks ----------------------- *)
\* callbacks that run last chained first
C29_Mutant_Resolved(rx, txq) ==
  rx \o [i \in 1..Len(txq) |-> txq[Len(txq) + 1 - i]]

\* the `then` callbacks chained on the session promise run, when it
\* resolves, in the order they were chained: what the session has received
\* once the frames of txq have been sent
Resolved(rx, txq) == rx \o txq

\* onopen.  The SDK resolves the promise of connectLiveSession right after
\* the callback, so what was chained on the pending promise runs here too:
\* the frames queued by onaudioprocess, then a close queued by cleanup.
OnOpen(a) ==
  /\ att[a].sess = "opening"
  /\ status' = Set(status, "connected")
  /\ LET wired == mediaStreamRef # 0 /\ inputAudioContextRef # 0
         A == [att EXCEPT ![a].sess = "open",
                          ![a].resolved = TRUE,
                          ![a].rx = Resolved(@, att[a].txq),
                          ![a].txq = << >>,
                          ![a].closeReq = IF @ = "queued" THEN "asked" ELSE @]
     IN /\ scriptProcessorRef' = IF wired THEN a ELSE scriptProcessorRef
        /\ att' = IF wired
                  THEN [A EXCEPT ![a].node = "wired",
                                 ![a].nodeCtx = inputAudioContextRef,
                                 ![a].nodeMic = mediaStreamRef]
                  ELSE A
  /\ last' = [ op |-> "open", a |-> a, threw |-> FALSE, ok |-> TRUE ]
  /\ UNCHANGED << envVars, view, mounted, transcript, currentInput, currentOutput,
                  isUserSpeaking, isBotSpeaking, sessionPromiseRef,
                  inputAudioContextRef, outputAudioContextRef, mediaStreamRef,
                  sourcesRef, nextStartTimeRef, silenceTimerRef,
                  botSpeakingTimeoutRef, nAtt, src, awaiting, nFrames >>

\* onerror
OnError(a) ==
  /\ att[a].sess \in {"opening", "open"}
  /\ status' = Set(status, "error")
  /\ Cleanup([att EXCEPT ![a].sess = "errored"])
  /\ last' = [ op |-> "error", a |-> a, threw |-> CleanupThrows, ok |-> ~CleanupThrows ]
  /\ UNCHANGED << envVars, view, mounted, transcript, currentInput, currentOutput,
                  isUserSpeaking, isBotSpeaking, nextStartTimeRef, nAtt,
                  awaiting, nFrames >>

\* an onclose that sets idle whatever the status was
C8_Mutant_CloseStatus(prev) == "idle"

\* the updater onclose hands to setStatus
CloseStatus(prev) == IF prev \in {"connected", "connecting"} THEN "idle" ELSE prev

\* onclose
OnClose(a) ==
  /\ att[a].sess \in {"opening", "open", "errored"}
  /\ status' = Set(status, CloseStatus(status))
  /\ att' = [att EXCEPT ![a].sess = "closed"]
  /\ last' = [ op |-> "close", a |-> a, threw |-> FALSE, ok |-> TRUE ]
  /\ UNCHANGED << envVars, view, mounted, transcript, currentInput, currentOutput,
                  isUserSpeaking, isBotSpeaking, refVars, sourcesRef,
                  nextStartTimeRef, silenceTimerRef, botSpeakingTimeoutRef,
                  nAtt, src, awaiting, nFrames >>

(* ----------------------------- onmessage ------------------------------ *)
\* A LiveServerMessage, by the fields the handler reads: the two
\* transcription texts (empty when absent), turnComplete, the inline audio
\* of modelTurn.parts[0] (none | pcm of `dur` ticks | malformed) and
\* interrupted.
NoMessage ==
  [ out |-> << >>, inp |-> << >>, tc |-> FALSE, audio |-> "none", dur |-> 0,
    intr |-> FALSE ]

\* a minimum in the place of the maximum
C27_Mutant_Max(x, y) == IF x <= y THEN x ELSE y

\* a maximum that always takes the device time
C25_Mutant_Max(x, y) == y

Max(x, y) == IF x >= y THEN x ELSE y

\* an updater that replaces the list by the user's new turn
C40_Mutant_Committed(prev, by, localIn, localOut) ==
  IF TrimNonEmpty(localIn)
  THEN << [ id |-> 1, author |-> "user", text |-> localIn,
            timestamp |-> 0, feedback |-> "none", by |-> by ] >>
  ELSE << >>

\* the items one turnComplete pushes; Date and uuidv4 are read once per
\* commit and per item: the timestamp is modelled by the length of the list
\* the commit starts from, the id by the position the item takes
Committed(prev, by, localIn, localOut) ==
  LET u == IF TrimNonEmpty(localIn)
           THEN << [ id |-> Len(prev) + 1, author |-> "user", text |-> localIn,
                     timestamp |-> Len(prev), feedback |-> "none", by |-> by ] >>
           ELSE << >>
      m == IF TrimNonEmpty(localOut)
           THEN << [ id |-> Len(prev) + Len(u) + 1, author |-> "model",
                     text |-> localOut, timestamp |-> Len(prev),
                     feedback |-> "none", by |-> by ] >>
           ELSE << >>
  IN prev \o u \o m

\* a forEach that stops no unit
C26_Mutant_StopAll(U, S) == U

\* source.stop() on every unit of the set S
StopAll(U, S) == [s \in DOMAIN U |-> IF s \in S THEN [U[s] EXCEPT !.st = "stopped"] ELSE U[s]]

\* the voice view has no branch for serverContent.interrupted
HandlesInterrupted == view = "video"

\* an updater that puts the new text in front of the pending text
C24_Mutant_Appended(prev, newText) == newText \o prev

\* a decoder that hands back a buffer for any audio part
C15_Mutant_Decodes(m) == m.audio # "none"

\* decodeAudioData(decode(base64Audio), ...) returns a buffer; on a part
\* that cannot be decoded, atob or the Int16Array view throws instead
Decodes(m) == m.audio = "pcm"

\* the updater `prev => prev + newText` of setCurrentInput / setCurrentOutput
Appended(prev, newText) == prev \o newText

OnMessage(a, m) ==
  LET localCurrentInput == att[a].capIn \o m.inp
      localCurrentOutput == att[a].capOut \o m.out
      oref == outputAudioContextRef
      hasAudio == m.audio # "none" /\ oref # 0
      throws == hasAudio /\ ~Decodes(m)
      scheduled == hasAudio /\ Decodes(m)
      cursor == IF hasAudio THEN Max(nextStartTimeRef, att[oref].ctime)
                ELSE nextStartTimeRef
      s == Len(src) + 1
      unit == [ start |-> cursor, dur |-> m.dur, st |-> "playing",
                left |-> cursor + m.dur - att[oref].ctime, ctx |-> oref, by |-> a ]
      src1 == IF scheduled THEN Append(src, unit) ELSE src
      set1 == IF scheduled THEN sourcesRef \cup {s} ELSE sourcesRef
      interrupt == m.intr /\ HandlesInterrupted /\ ~throws
      newTranscript == Committed(transcript, a, localCurrentInput, localCurrentOutput)
  IN
  /\ att[a].sess = "open"
  /\ Len(currentInput \o m.inp) <= MaxText
  /\ Len(currentOutput \o m.out) <= MaxText
  /\ m.tc => Len(newTranscript) <= MaxTurns
  /\ scheduled => Len(src) < MaxSources
  /\ currentOutput' =
       Set(currentOutput, IF m.tc THEN << >> ELSE Appended(currentOutput, m.out))
  /\ currentInput' =
       Set(currentInput, IF m.tc THEN << >> ELSE Appended(currentInput, m.inp))
  /\ transcript' = Set(transcript, IF m.tc THEN newTranscript ELSE transcript)
  /\ botSpeakingTimeoutRef' =
       IF hasAudio /\ view = "video" THEN ClearTimer(botSpeakingTimeoutRef, FALSE)
       ELSE botSpeakingTimeoutRef
  /\ isBotSpeaking' =
       Set(isBotSpeaking,
           IF interrupt THEN FALSE
           ELSE IF hasAudio /\ view = "video" THEN TRUE ELSE isBotSpeaking)
  /\ src' = IF interrupt THEN StopAll(src1, set1) ELSE src1
  /\ sourcesRef' = IF interrupt THEN {} ELSE set1
  /\ nextStartTimeRef' =
       IF interrupt THEN 0 ELSE IF scheduled THEN cursor + m.dur ELSE cursor
  /\ last' = [ op |-> "message", a |-> a, threw |-> throws, ok |-> ~throws ]
  /\ UNCHANGED << envVars, view, mounted, status, isUserSpeaking, refVars,
                  silenceTimerRef, att, nAtt, awaiting, nFrames >>

\* the messages the remote end of session a sends in the model: one field
\* per message, and the combinations of fields the handler treats together
Messages(a) ==
  { [NoMessage EXCEPT !.inp = t] : t \in {<<a>>, <<SPACE>>} }
  \cup { [NoMessage EXCEPT !.out = t] : t \in {<<a>>, <<SPACE>>} }
  \cup { [NoMessage EXCEPT !.tc = TRUE] }
  \cup { [NoMessage EXCEPT !.audio = "pcm", !.dur = d] : d \in 1..MaxDur }
  \cup { [NoMessage EXCEPT !.audio = "malformed"] }
  \cup { [NoMessage EXCEPT !.intr = TRUE] }
  \cup { [NoMessage EXCEPT !.inp = <<a>>, !.tc = TRUE],
         [NoMessage EXCEPT !.out = <<a>>, !.tc = TRUE],
         [NoMessage EXCEPT !.inp = <<a>>, !.out = <<a>>, !.tc = TRUE],
         [NoMessage EXCEPT !.audio = "pcm", !.dur = 1, !.intr = TRUE],
         [NoMessage EXCEPT !.audio = "malformed", !.intr = TRUE],
         [NoMessage EXCEPT !.out = <<a>>, !.audio = "pcm", !.dur = 1] }

(* ------------------------ playback and capture ------------------------ *)
\* the 'ended' listener of a playback unit: the unit played to its end, or
\* was force-stopped
SourceEnded(s) ==
  /\ s \in DOMAIN src
  /\ \/ src[s].st = "stopped"
     \/ src[s].st = "playing" /\ src[s].left = 0
  /\ src' = [src EXCEPT ![s].st = "ended"]
  /\ sourcesRef' = sourcesRef \ {s}
  /\ botSpeakingTimeoutRef' =
       IF view = "video"
       THEN [ ref |-> TRUE, pending |-> TRUE, left |-> Ticks(BOT_SPEAKING_DECAY) ]
       ELSE botSpeakingTimeoutRef
  /\ last' = [ op |-> "ended", a |-> src[s].by, threw |-> FALSE, ok |-> TRUE ]
  /\ UNCHANGED << envVars, view, mounted, uiVars, refVars, nextStartTimeRef,
                  silenceTimerRef, att, nAtt, awaiting, nFrames >>

\* the callback of the bot-speaking decay timer
BotSpeakingTimeout ==
  /\ botSpeakingTimeoutRef.pending
  /\ botSpeakingTimeoutRef.left = 0
  /\ botSpeakingTimeoutRef' = [botSpeakingTimeoutRef EXCEPT !.pending = FALSE]
  /\ isBotSpeaking' = Set(isBotSpeaking, IF sourcesRef = {} THEN FALSE ELSE isBotSpeaking)
  /\ last' = [ op |-> "botTimer", a |-> 0, threw |-> FALSE, ok |-> TRUE ]
  /\ UNCHANGED << envVars, view, mounted, status, transcript, currentInput, currentOutput,
                  isUserSpeaking, refVars, sourcesRef, nextStartTimeRef,
                  silenceTimerRef, att, nAtt, src, awaiting, nFrames >>

\* the callback of the silence timer
SilenceTimeout ==
  /\ silenceTimerRef.pending
  /\ silenceTimerRef.left = 0
  /\ silenceTimerRef' = [silenceTimerRef EXCEPT !.pending = FALSE]
  /\ isUserSpeaking' = Set(isUserSpeaking, FALSE)
  /\ last' = [ op |-> "silenceTimer", a |-> 0, threw |-> FALSE, ok |-> TRUE ]
  /\ UNCHANGED << envVars, view, mounted, status, transcript, currentInput, currentOutput,
                  isBotSpeaking, refVars, sourcesRef, nextStartTimeRef,
                  botSpeakingTimeoutRef, att, nAtt, src, awaiting, nFrames >>

(* Samples.  A Float32 sample in [-1, 1] is the integer x standing for     *)
(* x / SampleDen; the grid holds every multiple of 1/32768 and both VAD    *)
(* thresholds.  A frame is modelled with one sample, whose RMS is |x|.     *)
PCM_SCALE == 32768

\* grid points per step of 1/32768
GRID == 25

SampleDen == PCM_SCALE * GRID

Abs(n) == IF n >= 0 THEN n ELSE -n

\* ToIntegerOrInfinity: truncation toward zero of n / d
Trunc(n, d) == IF n >= 0 THEN n \div d ELSE -((-n) \div d)

\* the store into an Int16Array element: modulo 2^16, read back signed
Wrap16(v) == ((v + PCM_SCALE) % (2 * PCM_SCALE)) - PCM_SCALE

\* createPcmBlob, for one sample: int16[i] = data[i] * 32768, which for
\* the sample x / SampleDen is x / GRID
ToInt16(x) == Wrap16(Trunc(x, GRID))

\* decodeAudioData, for one sample: dataInt16[i] / 32768.0, on the grid
FromInt16(v) == v * GRID

\* VAD_ENERGY_THRESHOLD in thousandths: 0.01 (voice), 0.005 (video)
VAD_ENERGY_THRESHOLD_VOICE == 10
VAD_ENERGY_THRESHOLD_VIDEO == 5

VAD_ENERGY_THRESHOLD(v) ==
  IF v = "voice" THEN VAD_ENERGY_THRESHOLD_VOICE ELSE VAD_ENERGY_THRESHOLD_VIDEO

\* rms > VAD_ENERGY_THRESHOLD for the frame whose sample is x
Loud(x) == Abs(x) * 1000 > VAD_ENERGY_THRESHOLD(view) * SampleDen

\* a send placed inside the `if (rms > VAD_ENERGY_THRESHOLD)` block
C28_Mutant_Transmits(x) == Loud(x)

\* whether onaudioprocess hands the frame over: createPcmBlob and the send
\* stand after the `if (rms > VAD_ENERGY_THRESHOLD)` block, under no test
\* of the frame or of the speaking flag
Transmits(x) == TRUE

\* onaudioprocess of the capture node attempt a created, for a frame whose
\* sample is x: the VAD, then the frame chained on whatever promise
\* sessionPromiseRef holds now
OnAudioProcess(a, x) ==
  LET t == sessionPromiseRef
      frame == [ seq |-> nFrames + 1, x |-> x, pcm |-> ToInt16(x) ]
  IN
  /\ att[a].node = "wired"
  /\ att[att[a].nodeCtx].inCtx = "running"
  /\ x # 0 => att[att[a].nodeMic].mic = "live"
  /\ nFrames < MaxFrames
  /\ nFrames' = nFrames + 1
  /\ isUserSpeaking' = Set(isUserSpeaking, IF Loud(x) THEN TRUE ELSE isUserSpeaking)
  /\ silenceTimerRef' =
       IF Loud(x)
       THEN [ ref |-> TRUE, pending |-> TRUE, left |-> VAD_SILENCE_TIMEOUT(view) ]
       ELSE silenceTimerRef
  /\ att' = IF t = 0 \/ ~Transmits(x) THEN att
            ELSE IF ~att[t].resolved THEN [att EXCEPT ![t].txq = Append(@, frame)]
            ELSE IF att[t].sess = "open" THEN [att EXCEPT ![t].rx = Append(@, frame)]
            ELSE att
  /\ last' = [ op |-> "frame", a |-> a, threw |-> FALSE, ok |-> Loud(x) ]
  /\ UNCHANGED << envVars, view, mounted, status, transcript, currentInput, currentOutput,
                  isBotSpeaking, refVars, sourcesRef, nextStartTimeRef,
                  botSpeakingTimeoutRef, nAtt, src, awaiting >>

(* -------------------------------- time -------------------------------- *)
Dec(n) == IF n > 0 THEN n - 1 ELSE 0

TickTimer(t) == IF t.pending THEN [t EXCEPT !.left = Dec(@)] ELSE t

\* one tick of time passes: running output contexts advance, playing units
\* and pending timers come one tick closer to their end
Tick ==
  /\ \A a \in Attempts : att[a].outCtx = "running" => att[a].ctime < MaxTime
  /\ \/ \E a \in Attempts : att[a].outCtx = "running"
     \/ silenceTimerRef.pending /\ silenceTimerRef.left > 0
     \/ botSpeakingTimeoutRef.pending /\ botSpeakingTimeoutRef.left > 0
  /\ att' = [a \in Attempts |->
               IF att[a].outCtx = "running"
               THEN [att[a] EXCEPT !.ctime = @ + 1] ELSE att[a]]
  /\ src' = [s \in DOMAIN src |->
               IF src[s].st = "playing" /\ att[src[s].ctx].outCtx = "running"
               THEN [src[s] EXCEPT !.left = Dec(@)] ELSE src[s]]
  /\ silenceTimerRef' = TickTimer(silenceTimerRef)
  /\ botSpeakingTimeoutRef' = TickTimer(botSpeakingTimeoutRef)
  /\ last' = [ op |-> "tick", a |-> 0, threw |-> FALSE, ok |-> TRUE ]
  /\ UNCHANGED << envVars, view, mounted, uiVars, refVars, sourcesRef, nextStartTimeRef,
                  nAtt, awaiting, nFrames >>

(* --------------------------- specification ---------------------------- *)
\* the sample at the VAD threshold of the view
ThresholdSample == (VAD_ENERGY_THRESHOLD(view) * SampleDen) \div 1000

\* the samples of the model: silence, the threshold and its two
\* neighbours, both signs, and the neighbourhood of both ends of [-1, 1]
Samples ==
  {0}
  \cup { sg * (ThresholdSample + d) : sg \in {-1, 1}, d \in {-1, 0, 1} }
  \cup { sg * (SampleDen - d) : sg \in {-1, 1}, d \in 0..MaxEdge }

(* ------------------- decodeAudioData, settings effect ----------------- *)
\* decodeAudioData(data, ctx, sampleRate, numChannels).  The Int16Array view
\* throws a RangeError on an odd byte length.  frameCount is a quotient that
\* need not be whole; createBuffer takes its whole part as the length, and
\* throws a NotSupportedError when that is 0.  The loops then fill the frames
\* the buffer has; a write past its end is ignored.
decodeAudioData(data, numChannels) ==
  LET dataInt16Length == Len(data) \div 2
      length == dataInt16Length \div numChannels
  IN  IF Len(data) % 2 # 0
      THEN [ threw |-> "RangeError", channels |-> << >> ]
      ELSE IF length = 0
      THEN [ threw |-> "NotSupportedError", channels |-> << >> ]
      ELSE [ threw |-> "none",
             channels |->
               [ channel \in 1..numChannels |->
                   [ i \in 1..length |->
                       FromInt16(Int16At(data, (i - 1) * numChannels + (channel - 1))) ] ] ]

\* a call of decodeAudioData on a payload
DecodeAudioData(data, numChannels) ==
  /\ decodeCall' = [ called |-> TRUE, data |-> data, numChannels |-> numChannels,
                     threw |-> decodeAudioData(data, numChannels).threw,
                     channels |-> decodeAudioData(data, numChannels).channels ]
  /\ last' = [ op |-> "decode", a |-> 0, threw |-> decodeCall'.threw # "none",
               ok |-> decodeCall'.threw = "none" ]
  /\ UNCHANGED << audioSettings, localStorage, view, mounted, uiVars, refVars,
                  sourcesRef, nextStartTimeRef, silenceTimerRef,
                  botSpeakingTimeoutRef, att, nAtt, src, awaiting, nFrames >>

\* the effect on [audioSettings] of the video view, which runs after the
\* first render: localStorage.setItem('audioSettings', JSON.stringify(...)).
\* Nothing ever opens the settings dialog (isSettingsOpen is never set), so
\* setAudioSettings is never called and the effect runs this once.
PersistAudioSettings ==
  /\ mounted /\ view = "video"
  /\ localStorage' = Item(JSONstringify(audioSettings))
  /\ last' = [ op |-> "persist", a |-> 0, threw |-> FALSE, ok |-> TRUE ]
  /\ UNCHANGED << audioSettings, decodeCall, view, mounted, uiVars, refVars,
                  sourcesRef, nextStartTimeRef, silenceTimerRef,
                  botSpeakingTimeoutRef, att, nAtt, src, awaiting, nFrames >>

Next ==
  \/ HandleConnect
  \/ \E a \in Attempts, r \in ConnectOutcomes : MicSettled(a, r)
  \/ HandleDisconnect
  \/ \E w \in 0..MaxAttempts : DisconnectResume(w)
  \/ Unmount
  \/ \E a \in Attempts : OnOpen(a)
  \/ \E a \in Attempts : \E m \in Messages(a) : OnMessage(a, m)
  \/ \E a \in Attempts : OnError(a)
  \/ \E a \in Attempts : OnClose(a)
  \/ \E s \in 1..MaxSources : SourceEnded(s)
  \/ BotSpeakingTimeout
  \/ SilenceTimeout
  \/ \E a \in Attempts, x \in Samples : OnAudioProcess(a, x)
  \/ \E id \in 1..MaxTurns, fb \in Feedbacks : HandleSetFeedback(id, fb)
  \/ \E data \in Payloads, n \in ChannelCounts : DecodeAudioData(data, n)
  \/ PersistAudioSettings
  \/ Tick

Spec == Init /\ [][Next]_vars

(***************************************************************************)
(* Next lets every task of the component run with every input of the       *)
(* model.  The specifications below are restrictions of it: each keeps     *)
(* the tasks and the inputs a group of properties is about, so each of     *)
(* their behaviours is a behaviour of Spec.                                *)
(***************************************************************************)

\* the specifications that follow sessions from connect to their end let
\* them schedule PlaySources playback units
PlaySources == MaxSources - 1

\* onmessage, while fewer than PlaySources units have been scheduled
OnPlayMessage(a, m) ==
  /\ (m.audio = "pcm" /\ outputAudioContextRef # 0) => Len(src) < PlaySources
  /\ OnMessage(a, m)

\* the session callbacks that end or open a session
SessionEvents ==
  \/ \E a \in Attempts : OnOpen(a)
  \/ \E a \in Attempts : OnError(a)
  \/ \E a \in Attempts : OnClose(a)

\* the user's gestures, and the rest of handleDisconnect
Gestures ==
  \/ HandleConnect
  \/ HandleDisconnect
  \/ \E w \in 0..MaxAttempts : DisconnectResume(w)

\* SpecLife: connect, disconnect and the session callbacks, overlapping
\* attempts included; getUserMedia grants or denies; the remote end sends
\* audio chunks, so that playback units exist when a session ends.
LifeMessages(a) == { [NoMessage EXCEPT !.audio = "pcm", !.dur = 1] }

NextLife ==
  \/ Gestures
  \/ \E a \in Attempts, r \in {"ok", "denied"} : MicSettled(a, r)
  \/ SessionEvents
  \/ \E a \in Attempts : \E m \in LifeMessages(a) : OnPlayMessage(a, m)
  \/ \E s \in 1..MaxSources : SourceEnded(s)

SpecLife == Init /\ [][NextLife]_vars

\* SpecText: the transcript.  The remote end sends transcription deltas and
\* turnComplete, each in a message of its own; sessions end by disconnect,
\* error or close, and the user connects again once the session before is
\* over (overlapping attempts are SpecLife's).
NoSessionInProgress ==
  \A a \in Attempts : att[a].pc # "mic" /\ att[a].sess \notin {"opening", "open"}

TextMessages(a) ==
  { [NoMessage EXCEPT !.inp = <<a>>],
    [NoMessage EXCEPT !.out = <<a>>],
    [NoMessage EXCEPT !.tc = TRUE] }

NextText ==
  \/ (status \in {"connected", "connecting"} \/ NoSessionInProgress) /\ HandleConnect
  \/ HandleDisconnect
  \/ \E w \in 0..MaxAttempts : DisconnectResume(w)
  \/ \E a \in Attempts : MicSettled(a, "ok")
  \/ SessionEvents
  \/ \E a \in Attempts : \E m \in TextMessages(a) : OnMessage(a, m)

SpecText == Init /\ [][NextText]_vars

\* SpecPlay: playback within one session.  The remote end sends audio
\* chunks and the interrupted signal; time passes, units end, the decay
\* timer of the video view runs.
PlayAttempts == MaxAttempts - 1

PlayMessages(a) ==
  { [NoMessage EXCEPT !.audio = "pcm", !.dur = d] : d \in 1..MaxDur }
  \cup { [NoMessage EXCEPT !.intr = TRUE],
         [NoMessage EXCEPT !.audio = "pcm", !.dur = 1, !.intr = TRUE] }

NextPlay ==
  \/ (status \in {"connected", "connecting"} \/ nAtt < PlayAttempts) /\ HandleConnect
  \/ HandleDisconnect
  \/ \E w \in 0..MaxAttempts : DisconnectResume(w)
  \/ \E a \in Attempts : MicSettled(a, "ok")
  \/ SessionEvents
  \/ \E a \in Attempts : \E m \in PlayMessages(a) : OnPlayMessage(a, m)
  \/ \E s \in 1..MaxSources : SourceEnded(s)
  \/ BotSpeakingTimeout
  \/ Tick

SpecPlay == Init /\ [][NextPlay]_vars

\* SpecVad: the voice-activity detector.  The capture node delivers frames
\* at the threshold and just above it; time passes and the silence timer
\* runs; sessions follow one another as in SpecText.
VadSamples == {ThresholdSample, ThresholdSample + 1}

NextVad ==
  \/ (status \in {"connected", "connecting"} \/ NoSessionInProgress) /\ HandleConnect
  \/ HandleDisconnect
  \/ \E w \in 0..MaxAttempts : DisconnectResume(w)
  \/ \E a \in Attempts : MicSettled(a, "ok")
  \/ SessionEvents
  \/ \E a \in Attempts, x \in VadSamples : OnAudioProcess(a, x)
  \/ SilenceTimeout
  \/ Tick

SpecVad == Init /\ [][NextVad]_vars

\* SpecPcm: the capture path of one session.  The capture node delivers
\* frames whose sample ranges over Samples, and createPcmBlob converts them.
NextPcm ==
  \/ (status \in {"connected", "connecting"} \/ nAtt < PlayAttempts) /\ HandleConnect
  \/ \E a \in Attempts : MicSettled(a, "ok")
  \/ \E a \in Attempts : OnOpen(a)
  \/ \E a \in Attempts, x \in Samples : OnAudioProcess(a, x)

SpecPcm == Init /\ [][NextPcm]_vars

\* SpecDecode: playback within one session whose remote end also sends
\* audio parts that cannot be decoded.
DecodeMessages(a) ==
  { [NoMessage EXCEPT !.audio = "pcm", !.dur = 1],
    [NoMessage EXCEPT !.audio = "malformed"],
    [NoMessage EXCEPT !.audio = "malformed", !.intr = TRUE] }

NextDecode ==
  \/ (status \in {"connected", "connecting"} \/ nAtt < PlayAttempts) /\ HandleConnect
  \/ HandleDisconnect
  \/ \E w \in 0..MaxAttempts : DisconnectResume(w)
  \/ \E a \in Attempts : MicSettled(a, "ok")
  \/ SessionEvents
  \/ \E a \in Attempts : \E m \in DecodeMessages(a) : OnPlayMessage(a, m)
  \/ \E s \in 1..MaxSources : SourceEnded(s)
  \/ BotSpeakingTimeout
  \/ Tick

SpecDecode == Init /\ [][NextDecode]_vars

\* SpecUnmount: one session of a view that the user may leave at any
\* moment; audio chunks arrive, time passes, units end and timers run.
NextUnmount ==
  \/ (status \in {"connected", "connecting"} \/ nAtt < PlayAttempts) /\ HandleConnect
  \/ HandleDisconnect
  \/ \E w \in 0..MaxAttempts : DisconnectResume(w)
  \/ Unmount
  \/ \E a \in Attempts, r \in {"ok", "denied"} : MicSettled(a, r)
  \/ SessionEvents
  \/ \E a \in Attempts : \E m \in LifeMessages(a) : OnPlayMessage(a, m)
  \/ \E s \in 1..MaxSources : SourceEnded(s)
  \/ BotSpeakingTimeout
  \/ Tick

SpecUnmount == Init /\ [][NextUnmount]_vars

\* SpecDelta: the pending accumulators within one session.  The remote end
\* sends deltas of a letter or of a blank for either side, for both sides
\* in one message, and turnComplete alone or with a delta.
DeltaMessages(a) ==
  { [NoMessage EXCEPT !.inp = t] : t \in {<<a>>, <<SPACE>>} }
  \cup { [NoMessage EXCEPT !.out = t] : t \in {<<a>>, <<SPACE>>} }
  \cup { [NoMessage EXCEPT !.tc = TRUE],
         [NoMessage EXCEPT !.inp = <<a>>, !.out = <<SPACE>>],
         [NoMessage EXCEPT !.inp = <<a>>, !.tc = TRUE] }

NextDelta ==
  \/ (status \in {"connected", "connecting"} \/ nAtt < PlayAttempts) /\ HandleConnect
  \/ HandleDisconnect
  \/ \E w \in 0..MaxAttempts : DisconnectResume(w)
  \/ \E a \in Attempts : MicSettled(a, "ok")
  \/ SessionEvents
  \/ \E a \in Attempts : \E m \in DeltaMessages(a) : OnMessage(a, m)

SpecDelta == Init /\ [][NextDelta]_vars

\* SpecOrder: the order of playback within one session that nobody ends
\* from this side.  The remote end sends chunks and the interrupted signal,
\* up to MaxSources chunks; time passes and units end.
OrderMessages(a) ==
  { [NoMessage EXCEPT !.audio = "pcm", !.dur = 1],
    [NoMessage EXCEPT !.intr = TRUE] }

NextOrder ==
  \/ (status \in {"connected", "connecting"} \/ nAtt < PlayAttempts) /\ HandleConnect
  \/ \E a \in Attempts : MicSettled(a, "ok")
  \/ SessionEvents
  \/ \E a \in Attempts : \E m \in OrderMessages(a) : OnMessage(a, m)
  \/ \E s \in 1..MaxSources : SourceEnded(s)
  \/ Tick

SpecOrder == Init /\ [][NextOrder]_vars

\* SpecFeedback: the transcript and the user's feedback on it.  The
\* remote end sends turnComplete together with the text it commits;
\* sessions follow one another as in SpecText.
FeedbackMessages(a) ==
  { [NoMessage EXCEPT !.inp = <<a>>, !.tc = TRUE],
    [NoMessage EXCEPT !.out = <<a>>, !.tc = TRUE],
    [NoMessage EXCEPT !.inp = <<a>>, !.out = <<a>>, !.tc = TRUE] }

NextFeedback ==
  \/ (status \in {"connected", "connecting"} \/ NoSessionInProgress) /\ HandleConnect
  \/ HandleDisconnect
  \/ \E w \in 0..MaxAttempts : DisconnectResume(w)
  \/ \E a \in Attempts : MicSettled(a, "ok")
  \/ SessionEvents
  \/ \E a \in Attempts : \E m \in FeedbackMessages(a) : OnMessage(a, m)
  \/ \E id \in 1..MaxTurns, fb \in Feedbacks : HandleSetFeedback(id, fb)

SpecFeedback == Init /\ [][NextFeedback]_vars

(***************************************************************************)
(*                             Properties                                  *)
(***************************************************************************)

TurnComplete == [NoMessage EXCEPT !.tc = TRUE]

\* C1: when input-transcription deltas have arrived in messages of their
\* own, with no output delta, and a separate turn-complete message is then
\* handled, exactly one turn is appended to the transcript: its author is
\* user and its text is the concatenation of those deltas (the user pending
\* accumulator); the accumulator is empty afterwards and no agent turn is
\* appended.
C1_TurnCommit ==
  [][ \A a \in Attempts :
        ( /\ OnMessage(a, TurnComplete)
          /\ mounted
          /\ TrimNonEmpty(currentInput)
          /\ currentOutput = << >> )
        => /\ Len(transcript') = Len(transcript) + 1
           /\ SubSeq(transcript', 1, Len(transcript)) = transcript
           /\ transcript'[Len(transcript')].author = "user"
           /\ transcript'[Len(transcript')].text = currentInput
           /\ currentInput' = << >> ]_vars

\* attempt a still holds a resource: a capturing stream, a wired capture
\* node, an open audio context, or a session nobody has asked to close
Holds(a) ==
  \/ att[a].mic = "live"
  \/ att[a].node = "wired"
  \/ att[a].inCtx = "running"
  \/ att[a].outCtx = "running"
  \/ att[a].sess \in {"opening", "open"} /\ att[a].closeReq = "no"

\* C2: a disconnect invoked while a connect is in progress cancels the
\* attempt: once the pending steps of that connect (a granted getUserMedia,
\* the session open) have resolved, and the user has not connected again,
\* status is idle and the attempt holds no microphone stream, audio
\* context, capture node or remote session.
C2_DisconnectCancelsConnect ==
  \A a \in Attempts :
    ( /\ att[a].cancelled
      /\ a = nAtt
      /\ att[a].mic # "denied"
      /\ ~Connecting(a) )
    => status = "idle" /\ ~Holds(a)

\* the tasks of SpecLife that run without a gesture of the user
EnvLife ==
  \/ \E w \in 0..MaxAttempts : DisconnectResume(w)
  \/ \E a \in Attempts, r \in {"ok", "denied"} : MicSettled(a, r)
  \/ SessionEvents
  \/ \E a \in Attempts : \E m \in LifeMessages(a) : OnPlayMessage(a, m)
  \/ \E s \in 1..MaxSources : SourceEnded(s)

\* C3: once a session has left connected or connecting (status idle or
\* error), every resource is eventually released: the program never comes
\* to rest, with nothing left to run until the user's next gesture, while
\* a microphone stream, a capture node, an audio context or a session is
\* still held.
C3_ReleasedOnEveryExit ==
  (status \in {"idle", "error"} /\ ~ENABLED EnvLife)
  => \A a \in Attempts : ~Holds(a)

\* C4: a connect called while status is connecting or connected changes
\* nothing: status, transcript, both pending accumulators, the cursor, the
\* ActiveSourceSet, the refs and every object stay as they are, and no new
\* attempt (microphone request, session) is started.
C4_NoDoubleConnect ==
  [][ (status \in {"connecting", "connected"} /\ last'.op = "connect")
      => /\ UNCHANGED << view, mounted, uiVars, refVars, sourcesRef,
                         nextStartTimeRef, silenceTimerRef,
                         botSpeakingTimeoutRef, att, nAtt, src, awaiting,
                         nFrames >>
         /\ ~last'.ok ]_vars

\* C4 witness: a connect was refused while the session was connected and
\* its resources were held
C4_Witness ==
  /\ last.op = "connect" /\ ~last.ok
  /\ status = "connected"
  /\ mediaStreamRef # 0 /\ sessionPromiseRef # 0

\* C5: every call of disconnect, the second of two in a row included,
\* completes without throwing and leaves status idle, in both views.
C5_DisconnectIdempotent ==
  last.op = "disconnect" => status = "idle" /\ ~last.threw

\* C6: when a message carrying the interrupted signal has been handled,
\* every unit that was in the ActiveSourceSet has been force-stopped, the
\* set is empty and the cursor is 0, in both views.
C6_InterruptClears ==
  [][ \A a \in Attempts : \A m \in PlayMessages(a) :
        (m.intr /\ OnMessage(a, m))
        => /\ sourcesRef' = {}
           /\ nextStartTimeRef' = 0
           /\ \A s \in sourcesRef : src'[s].st = "stopped" ]_vars

\* C7: the transcript gains turns only while a turn-complete message is
\* handled, and text that was pending when a session ended never appears
\* in a turn committed later: every character of a turn comes from the
\* session that committed it.
C7_CommitOnlyOnTurnBoundary ==
  /\ [][ Len(transcript') > Len(transcript)
         => \E a \in Attempts : \E m \in TextMessages(a) : m.tc /\ OnMessage(a, m) ]_vars
  /\ [](\A i \in DOMAIN transcript : \A j \in DOMAIN transcript[i].text :
          transcript[i].text[j] \in {SPACE, transcript[i].by})

\* C8: a remote close sets status to idle when status is connected or
\* connecting, and leaves it unchanged when it is idle or error.
C8_CloseKeepsLeftState ==
  [][ last'.op = "close"
      => status' = IF status \in {"connected", "connecting"} THEN "idle" ELSE status ]_vars

\* C8 witness: a close arrived after the session's error and status is
\* still error
C8_Witness == last.op = "close" /\ status = "error" /\ att[last.a].sess = "closed"

\* C9: when a remote error arrives while status is connecting or
\* connected, status becomes error and cleanup runs in full: no stream
\* captures, no capture node is wired, the ActiveSourceSet is empty, every
\* live session has been asked to close, no audio context is open and
\* every ref is null.
C9_ErrorRunsFullCleanup ==
  [][ (status \in {"connecting", "connected"} /\ last'.op = "error")
      => /\ status' = "error"
         /\ ~last'.threw
         /\ sourcesRef' = {}
         /\ sessionPromiseRef' = 0 /\ mediaStreamRef' = 0
         /\ scriptProcessorRef' = 0
         /\ inputAudioContextRef' = 0 /\ outputAudioContextRef' = 0
         /\ \A a \in Attempts :
              /\ att'[a].mic # "live"
              /\ att'[a].node # "wired"
              /\ att'[a].inCtx # "running"
              /\ att'[a].outCtx # "running"
              /\ att'[a].sess \in {"opening", "open"} => att'[a].closeReq # "no" ]_vars

\* C10: when getUserMedia fails, status becomes error, the user is
\* alerted and the attempt creates no audio context and opens no session;
\* status then stays error, and no attempt is started, until the user's
\* next gesture; a connect in status error is accepted.
C10_MicFailureIsTerminal ==
  [][ /\ \A a \in Attempts :
           (last'.op = "mic" /\ last'.a = a /\ att'[a].mic = "denied")
           => /\ status' = "error"
              /\ att'[a].alerted
              /\ att'[a].inCtx = "none" /\ att'[a].outCtx = "none"
              /\ att'[a].sess = "none"
      /\ ( /\ nAtt > 0 /\ att[nAtt].mic = "denied" /\ status = "error"
           /\ last'.op \notin {"connect", "disconnect"} )
         => status' = "error" /\ nAtt' = nAtt
      /\ (status = "error" /\ last'.op = "connect")
         => last'.ok /\ status' = "connecting" ]_vars

\* the playback units session a scheduled, in the order it scheduled them
UnitsOf(a) == { s \in DOMAIN src : src[s].by = a }

\* C11: chunks one session schedules one after the other, with no
\* interrupted signal in between (SpecLife's remote end sends none), do not
\* overlap: when a chunk is scheduled, its start is at or after the end of
\* the chunk the same session scheduled before it, and it is exactly that
\* end whenever the device time of the scheduling is not later than it.
C11_NoOverlapNoGap ==
  [][ \A a \in Attempts :
        ( /\ last'.op = "message" /\ last'.a = a
          /\ Len(src') = Len(src) + 1
          /\ UnitsOf(a) # {} )
        => LET k == src'[Len(src')]
               p == src[CHOOSE s \in UnitsOf(a) : \A t \in UnitsOf(a) : t <= s]
               now == att[k.ctx].ctime
           IN /\ k.start >= p.start + p.dur
              /\ now <= p.start + p.dur => k.start = p.start + p.dur ]_vars

\* C12: a frame strictly above the threshold sets the user-speaking flag
\* and arms the silence timer with the full timeout; a frame at or below
\* the threshold changes neither the flag nor the timer; while the timer
\* armed by the last loud frame has not run out the flag is true; and the
\* flag becomes false when the timer expires.
C12_VadHangover ==
  /\ [][ \A a \in Attempts : \A x \in VadSamples :
           OnAudioProcess(a, x)
           => IF Abs(x) > ThresholdSample
              THEN /\ isUserSpeaking'
                   /\ silenceTimerRef'.pending
                   /\ silenceTimerRef'.left = VAD_SILENCE_TIMEOUT(view)
              ELSE UNCHANGED << isUserSpeaking, silenceTimerRef >> ]_vars
  /\ [][ last'.op = "silenceTimer" => ~isUserSpeaking' ]_vars
  /\ []( (silenceTimerRef.pending /\ silenceTimerRef.left > 0) => isUserSpeaking )

\* C13: for every sample x in [-1, 1], both ends included, the 16-bit value
\* createPcmBlob stores for x, converted back as decodeAudioData converts
\* (divided by 32768), differs from x by at most 1/32768.
C13_PcmRoundTrip ==
  \A a \in Attempts : \A i \in DOMAIN att[a].rx :
    Abs(FromInt16(att[a].rx[i].pcm) - att[a].rx[i].x) <= GRID

\* C14: at every reachable state at most one microphone stream, one
\* capture node, one input context, one output context and one remote
\* session are live (acquired and not yet released).
C14_SingleResourceSet ==
  /\ Cardinality({ a \in Attempts : att[a].mic = "live" }) <= 1
  /\ Cardinality({ a \in Attempts : att[a].node = "wired" }) <= 1
  /\ Cardinality({ a \in Attempts : att[a].inCtx = "running" }) <= 1
  /\ Cardinality({ a \in Attempts : att[a].outCtx = "running" }) <= 1
  /\ Cardinality({ a \in Attempts : /\ att[a].sess \in {"opening", "open"}
                                     /\ att[a].closeReq # "asked" }) <= 1

\* C15: a message whose audio part cannot be decoded leaves status, every
\* resource and ref, the ActiveSourceSet, the playback units and the
\* transcript as they were; and a well-formed chunk that arrives right
\* after it, while the output context is held, is scheduled.
C15_BadChunkSkipped ==
  [][ \A a \in Attempts : \A m \in DecodeMessages(a) :
        OnMessage(a, m)
        => /\ m.audio = "malformed"
              => /\ UNCHANGED << status, transcript, refVars, sourcesRef, src >>
                 /\ \A b \in Attempts :
                      /\ att'[b].mic = att[b].mic
                      /\ att'[b].node = att[b].node
                      /\ att'[b].inCtx = att[b].inCtx
                      /\ att'[b].outCtx = att[b].outCtx
                      /\ att'[b].sess = att[b].sess
                      /\ att'[b].closeReq = att[b].closeReq
           /\ ( /\ m.audio = "pcm"
                /\ last.op = "message" /\ last.threw
                /\ outputAudioContextRef # 0 )
              => /\ Len(src') = Len(src) + 1
                 /\ sourcesRef' = sourcesRef \cup {Len(src')}
                 /\ src'[Len(src')].st = "playing" ]_vars

\* C15 witness: a chunk that could not be decoded was just skipped in a
\* connected session with a unit playing, and the unit is still in the set
C15_Witness ==
  /\ last.op = "message" /\ last.threw
  /\ status = "connected"
  /\ \E s \in sourcesRef : src[s].st = "playing"

\* C16: after a view has been unmounted, in whatever state, nothing of it
\* remains: once every task the unmount left behind has run, no microphone
\* stream, capture node, audio context or session is held and no timer is
\* pending.
C16_UnmountReleasesAll ==
  (~mounted /\ ~ENABLED NextUnmount)
  => /\ \A a \in Attempts : ~Holds(a)
     /\ ~silenceTimerRef.pending
     /\ ~botSpeakingTimeoutRef.pending

\* C17: when disconnect has completed, and when the cleanup a remote error
\* triggers has run, no playback unit is still playing, the ActiveSourceSet
\* is empty and the PlaybackCursor is 0.
C17_CleanupInterrupts ==
  [][ ( \/ last'.op = "disconnected"
        \/ last'.op = "disconnect" /\ last'.ok /\ awaiting' = awaiting
        \/ last'.op = "error" )
      => /\ sourcesRef' = {}
         /\ nextStartTimeRef' = 0
         /\ \A s \in DOMAIN src' : src'[s].st # "playing" ]_vars

\* no resource is held by the refs: nothing was acquired, or all of it has
\* been released already
NothingAcquired ==
  /\ sessionPromiseRef = 0 /\ mediaStreamRef = 0 /\ scriptProcessorRef = 0
  /\ inputAudioContextRef = 0 /\ outputAudioContextRef = 0
  /\ sourcesRef = {}

\* C18: a cleanup invoked while nothing is acquired (by disconnect or by
\* unmount, before any connect or while getUserMedia is pending) does not
\* throw, in either view, and such a disconnect leaves both pending
\* accumulators empty and both speaking flags false.
C18_CleanupWithoutResources ==
  [][ (NothingAcquired /\ last'.op \in {"disconnect", "unmount"})
      => /\ ~last'.threw
         /\ last'.op = "disconnect"
            => /\ currentInput' = << >> /\ currentOutput' = << >>
               /\ ~isUserSpeaking' /\ ~isBotSpeaking' ]_vars

\* C19: every run of cleanup (from disconnect, from the error handler, from
\* unmount) executes all of its steps and hands no failure to its caller:
\* afterwards both timers are cleared, the ActiveSourceSet is empty, every
\* ref is null, and nothing was thrown.
C19_CleanupRunsEveryStep ==
  [][ last'.op \in {"disconnect", "error", "unmount"}
      => /\ ~last'.threw
         /\ ~silenceTimerRef'.pending /\ ~botSpeakingTimeoutRef'.pending
         /\ sourcesRef' = {}
         /\ scriptProcessorRef' = 0 /\ mediaStreamRef' = 0
         /\ sessionPromiseRef' = 0
         /\ inputAudioContextRef' = 0 /\ outputAudioContextRef' = 0 ]_vars

\* a session was started and cleanup has torn it down: no handleConnect is
\* suspended and the refs hold nothing
TornDown ==
  /\ nAtt >= 1
  /\ \A a \in Attempts : att[a].pc # "mic"
  /\ NothingAcquired

\* C20: once cleanup has torn a session down, no silence timer and no
\* bot-speaking timer is pending, whatever events of that session (the
\* ended events of its force-stopped units among them) arrive afterwards.
C20_NoTimerAfterCleanup ==
  TornDown => ~silenceTimerRef.pending /\ ~botSpeakingTimeoutRef.pending


\* C21: status becomes connected only while the open event of the current
\* session (the one sessionPromiseRef holds) is handled in status
\* connecting; an open event handled while status is idle or error does not
\* set status to connected.
C21_ConnectedOnlyByCurrentOpen ==
  [][ /\ (status' = "connected" /\ status # "connected")
         => /\ last'.op = "open"
            /\ status = "connecting"
            /\ last'.a = sessionPromiseRef
      /\ (last'.op = "open" /\ status \in {"idle", "error"})
         => status' # "connected" ]_vars

\* C22: when a turn-complete message is handled while both pending
\* accumulators are non-empty after trimming, exactly two turns are
\* appended, the user's first and the agent's second, with one timestamp,
\* each holding the whole text of its accumulator; both accumulators are
\* empty afterwards.
C22_CommitBothSides ==
  [][ \A a \in Attempts :
        ( /\ OnMessage(a, TurnComplete)
          /\ mounted
          /\ TrimNonEmpty(currentInput)
          /\ TrimNonEmpty(currentOutput) )
        => /\ Len(transcript') = Len(transcript) + 2
           /\ SubSeq(transcript', 1, Len(transcript)) = transcript
           /\ LET u == transcript'[Len(transcript) + 1]
                  m == transcript'[Len(transcript) + 2]
              IN /\ u.author = "user" /\ u.text = currentInput
                 /\ m.author = "model" /\ m.text = currentOutput
                 /\ u.timestamp = m.timestamp
           /\ currentInput' = << >>
           /\ currentOutput' = << >> ]_vars

\* C23: every turn of the transcript has text that is non-empty after
\* trimming; and when a turn-complete is handled, a side whose pending
\* accumulator (the deltas of the handled message included) is empty or
\* blank after trimming gets no turn: with both sides empty the transcript
\* is unchanged.
C23_NoEmptyTurn ==
  /\ [](\A i \in DOMAIN transcript : TrimNonEmpty(transcript[i].text))
  /\ [][ \A a \in Attempts : \A m \in TextMessages(a) :
           (m.tc /\ OnMessage(a, m) /\ mounted)
           => LET new == SubSeq(transcript', Len(transcript) + 1, Len(transcript'))
              IN /\ ~TrimNonEmpty(currentInput \o m.inp)
                    => \A i \in DOMAIN new : new[i].author # "user"
                 /\ ~TrimNonEmpty(currentOutput \o m.out)
                    => \A i \in DOMAIN new : new[i].author # "model" ]_vars

\* C24: each pending accumulator is the concatenation, in arrival order, of
\* the deltas of its side since the last turn-complete or reset: a message
\* without turnComplete appends its delta of a side to that side's
\* accumulator and leaves the other side's alone, a turn-complete empties
\* both, a connect or a disconnect leaves both or empties both, and no
\* other step touches them.
C24_AccumulatorsFollowDeltas ==
  [][ /\ \A a \in Attempts : \A m \in DeltaMessages(a) :
           (OnMessage(a, m) /\ mounted)
           => /\ currentInput' = IF m.tc THEN << >> ELSE currentInput \o m.inp
              /\ currentOutput' = IF m.tc THEN << >> ELSE currentOutput \o m.out
      /\ last'.op \in {"connect", "disconnect", "disconnected"}
         => \/ UNCHANGED << currentInput, currentOutput >>
            \/ currentInput' = << >> /\ currentOutput' = << >>
      /\ last'.op \notin {"message", "connect", "disconnect", "disconnected"}
         => UNCHANGED << currentInput, currentOutput >> ]_vars

\* C24 witness: in a connected session the user accumulator holds a letter
\* and then a blank, in the order they arrived, while the agent accumulator
\* is non-empty too
C24_Witness ==
  /\ status = "connected"
  /\ last.op = "message"
  /\ \E a \in Attempts : currentInput = <<a, SPACE>>
  /\ currentOutput # << >>

\* C25: while status is connected the PlaybackCursor never decreases from
\* one step to the next, except that it is set to 0 by an interrupted
\* signal, by a disconnect or by the start of a session; and a message that
\* schedules a chunk (and carries no interrupted signal) sets it to the
\* larger of the cursor and the device time, plus the chunk's duration.
C25_CursorMonotonic ==
  [][ /\ (status = "connected" /\ nextStartTimeRef' < nextStartTimeRef)
         => /\ nextStartTimeRef' = 0
            /\ \/ last'.op \in {"mic", "disconnect", "disconnected"}
               \/ \E a \in Attempts : \E m \in PlayMessages(a) :
                    m.intr /\ OnMessage(a, m)
      /\ \A a \in Attempts : \A m \in PlayMessages(a) :
           ( /\ OnMessage(a, m)
             /\ m.audio = "pcm" /\ ~m.intr
             /\ outputAudioContextRef # 0 )
           => LET now == att[outputAudioContextRef].ctime
              IN nextStartTimeRef' =
                   (IF nextStartTimeRef >= now THEN nextStartTimeRef ELSE now) + m.dur
    ]_vars

\* C25 witness: in a connected session a chunk was just scheduled at the
\* device time, later than the end of the chunk before it, and the cursor
\* stands at its end
C25_Witness ==
  /\ status = "connected"
  /\ last.op = "message"
  /\ Len(src) = 2
  /\ src[2].start > src[1].start + src[1].dur
  /\ nextStartTimeRef = src[2].start + src[2].dur

\* C26: the ActiveSourceSet holds exactly the playback units that were
\* scheduled and whose ended event has not fired and that were not
\* force-stopped; a unit enters the set only in the message step that
\* creates it, and a unit that leaves the set has ended or been stopped, so
\* no unit re-enters.
C26_ActiveSetIsLiveUnits ==
  /\ [](sourcesRef = { s \in DOMAIN src : src[s].st = "playing" })
  /\ [][ /\ \A s \in sourcesRef' \ sourcesRef :
              s \notin DOMAIN src /\ last'.op = "message"
         /\ \A s \in sourcesRef \ sourcesRef' :
              src'[s].st \in {"ended", "stopped"} ]_vars

\* C26 witness: one unit was force-stopped and is out of the set, a unit
\* scheduled after it is playing and in the set
C26_Witness ==
  /\ Len(src) = 2
  /\ src[1].st = "stopped"
  /\ sourcesRef = {2}
  /\ src[2].st = "playing"

C28_VadIsNotAGate ==
  [][ \A a \in Attempts : \A x \in VadSamples :
        OnAudioProcess(a, x)
        => LET t == sessionPromiseRef
               frame == [ seq |-> nFrames + 1, x |-> x, pcm |-> ToInt16(x) ]
           IN /\ isUserSpeaking' = (isUserSpeaking \/ Abs(x) > ThresholdSample)
              /\ (t # 0 /\ ~att[t].resolved)
                 => att'[t].txq = Append(att[t].txq, frame)
              /\ (t # 0 /\ att[t].sess = "open")
                 => att'[t].rx = Append(att[t].rx, frame) ]_vars

\* C28 witness: a frame at the threshold, which the VAD does not count as
\* speech, has just been received by the open session while the
\* user-speaking flag is false
C28_Witness ==
  /\ last.op = "frame" /\ ~last.ok
  /\ ~isUserSpeaking
  /\ \E a \in Attempts :
       /\ att[a].sess = "open"
       /\ att[a].rx # << >>
       /\ att[a].rx[Len(att[a].rx)].seq = nFrames
       /\ att[a].rx[Len(att[a].rx)].x = ThresholdSample

\* C29: the frames a session has received, followed by those still chained
\* on its pending promise, are in capture order with no frame twice, and
\* no frame goes to two sessions.
C29_FramesInCaptureOrder ==
  /\ \A a \in Attempts :
       LET sent == att[a].rx \o att[a].txq
       IN \A i, j \in DOMAIN sent : i < j => sent[i].seq < sent[j].seq
  /\ \A a, b \in Attempts :
       a # b => \A i \in DOMAIN att[a].rx : \A j \in DOMAIN att[b].rx :
                  att[a].rx[i].seq # att[b].rx[j].seq

\* C29 witness: the promise has just resolved and the two frames captured
\* while it was pending have reached the session
C29_Witness ==
  /\ last.op = "open"
  /\ Len(att[last.a].rx) = 2
  /\ att[last.a].txq = << >>

\* C30: from one step to the next, unless the step is a connect that
\* starts a new session, every turn of the transcript stays at its
\* position with its id, author, text and timestamp; only its feedback can
\* differ, and a feedback action on one turn leaves every other turn, and
\* the length of the transcript, as they were.
C30_TurnsImmutable ==
  [][ /\ last'.op # "connect"
         => /\ Len(transcript') >= Len(transcript)
            /\ \A i \in DOMAIN transcript :
                 /\ transcript'[i].id = transcript[i].id
                 /\ transcript'[i].author = transcript[i].author
                 /\ transcript'[i].text = transcript[i].text
                 /\ transcript'[i].timestamp = transcript[i].timestamp
                 /\ last'.op # "feedback" => transcript'[i] = transcript[i]
      /\ \A id \in 1..MaxTurns : \A fb \in Feedbacks :
           HandleSetFeedback(id, fb)
           => /\ Len(transcript') = Len(transcript)
              /\ \A i \in DOMAIN transcript :
                   transcript[i].id # id => transcript'[i] = transcript[i] ]_vars

\* C30 witness: the user has just liked the second of two turns, the
\* agent's, and the first has no feedback
C30_Witness ==
  /\ last.op = "feedback"
  /\ Len(transcript) = 2
  /\ transcript[2].author = "model" /\ transcript[2].feedback = "liked"
  /\ transcript[1].feedback = "none"

\* C31: a feedback action with value v on a turn whose feedback is v
\* clears it, and on a turn whose feedback is unset or is the other value
\* sets it to v; so the same value selected twice in a row on a turn with
\* no feedback leaves it with no feedback.
C31_FeedbackToggles ==
  [][ \A id \in 1..MaxTurns : \A fb \in Feedbacks :
        HandleSetFeedback(id, fb)
        => \A i \in DOMAIN transcript :
             transcript[i].id = id
             => transcript'[i].feedback =
                  IF transcript[i].feedback = fb THEN "none" ELSE fb ]_vars

\* C31 witness: a feedback action has just run and left the agent's turn
\* it was about with no feedback, which only a repeated selection does
C31_Witness ==
  /\ last.op = "feedback"
  /\ Len(transcript) = 1
  /\ transcript[1].author = "model"
  /\ transcript[1].feedback = "none"

\* C32: from an accepted connect until the first message of the session it
\* starts can be handled, that is while the newest attempt waits for
\* getUserMedia or its session is opening, both pending accumulators are
\* empty and both speaking flags are false; and once handleConnect has
\* created the session, the PlaybackCursor is 0 as well.
C32_CleanStart ==
  \A a \in Attempts :
    (a = nAtt /\ status = "connecting" /\ Connecting(a))
    => /\ currentInput = << >> /\ currentOutput = << >>
       /\ ~isUserSpeaking /\ ~isBotSpeaking
       /\ att[a].sess = "opening" => nextStartTimeRef = 0

\* SpecCodec: decodeAudioData applied to every payload of at most MaxBytes
\* bytes, for one and for two channels.
NextCodec ==
  \E data \in Payloads, n \in ChannelCounts : DecodeAudioData(data, n)

SpecCodec == Init /\ [][NextCodec]_vars

\* SpecSettings: the video view mounted in a browser whose storage holds
\* any of StoredItems, and its persistence effect.
InitSettings == \E saved \in StoredItems : Constructed(saved)

NextSettings == PersistAudioSettings

SpecSettings == InitSettings /\ [][NextSettings]_vars

\* C33: decodeAudioData fails with an error exactly when the byte length of
\* the payload is not a multiple of 2 * numChannels; otherwise it returns a
\* buffer of byteLength / (2 * numChannels) frames per channel in which
\* sample i of channel c is the 16-bit value at index i * numChannels + c
\* divided by 32768.
C33_DecodeContract ==
  decodeCall.called
  => LET data == decodeCall.data
         n == decodeCall.numChannels
     IN  /\ (decodeCall.threw # "none") <=> (Len(data) % (2 * n) # 0)
         /\ decodeCall.threw = "none"
            => /\ Len(decodeCall.channels) = n
               /\ \A c \in 1..n :
                    /\ Len(decodeCall.channels[c]) = Len(data) \div (2 * n)
                    /\ \A i \in 1..Len(decodeCall.channels[c]) :
                         decodeCall.channels[c][i]
                           = FromInt16(Int16At(data, (i - 1) * n + (c - 1)))

\* C34: the video view's AudioSettings start as the value stored under the
\* key 'audioSettings' when that is an object of three boolean fields, and
\* as the defaults, all true, when nothing is stored or what is stored
\* cannot be parsed or is not such an object.
C34_SettingsOrDefaults ==
  (view = "video" /\ last.op = "init")
  => audioSettings =
       IF /\ localStorage.present
          /\ ~JSONparse(localStorage.text).threw
          /\ IsAudioSettings(JSONparse(localStorage.text).value)
       THEN JSONparse(localStorage.text).value
       ELSE DefaultAudioSettings

\* C35: once the user has disconnected a session and a later connect was
\* accepted, the events of the earlier session (open, message, error,
\* close) change neither the status, the accumulators, the transcript nor
\* the resources (refs, active sources, cursor).
C35_LateEventsAreInert ==
  [][ \A a \in Attempts :
        ( /\ att[a].left
          /\ a < nAtt
          /\ last'.a = a
          /\ last'.op \in {"open", "message", "error", "close"} )
        => UNCHANGED << status, currentInput, currentOutput, transcript,
                        refVars, sourcesRef, nextStartTimeRef >> ]_vars

\* cleanup has begun for the session of attempt a: the user disconnected
\* it, cleanup asked it to close, its error event was handled, or the
\* component was unmounted
CleanupBegun(a) ==
  \/ att[a].left
  \/ att[a].closeReq # "no"
  \/ att[a].sess = "errored"
  \/ ~mounted

\* C36: once cleanup has begun for a session, no message of that session
\* starts a playback unit or adds one to the active set, and the active set
\* is empty from the cleanup of the newest session until the next connect.
C36_NoUnitAfterCleanup ==
  [][ /\ \A a \in Attempts :
           (CleanupBegun(a) /\ last'.op = "message" /\ last'.a = a)
           => (src' = src /\ sourcesRef' \subseteq sourcesRef)
      /\ ( /\ nAtt' > 0
            /\ \/ att'[nAtt'].left
               \/ att'[nAtt'].closeReq # "no"
               \/ att'[nAtt'].sess = "errored"
               \/ ~mounted' )
         => sourcesRef' = {} ]_vars

\* SpecSetup: connect, disconnect and the session callbacks, where the
\* rest of handleConnect's try block may throw at each of its calls once
\* getUserMedia has settled.
NextSetup ==
  \/ Gestures
  \/ \E a \in Attempts, r \in ConnectOutcomes : MicSettled(a, r)
  \/ SessionEvents

SpecSetup == Init /\ [][NextSetup]_vars

\* C37: when handleConnect fails after getUserMedia granted the microphone
\* (an AudioContext constructor or the opening of the session throws),
\* status becomes error and the microphone stream is stopped.
C37_FailedConnectReleasesMic ==
  [][ (last'.op = "mic" /\ last'.threw /\ att'[last'.a].mic # "denied")
      => (status' = "error" /\ att'[last'.a].mic = "stopped") ]_vars

\* C38: in the video view, whenever isBotSpeaking is true, the active set
\* is non-empty or a bot-speaking decay timer is pending (a chunk under
\* decode is within the onmessage step and is no state of its own).
C38_BotSpeakingHasCause ==
  (view = "video" /\ isBotSpeaking)
  => (sourcesRef # {} \/ botSpeakingTimeoutRef.pending)

\* C39: in every reachable state in which the user-speaking flag is true,
\* a silence timer is pending that will set it to false.
C39_SpeakingHasPendingTimer ==
  isUserSpeaking => silenceTimerRef.pending

\* C40: only an accepted connect empties the transcript.  Every other step
\* keeps each committed turn in its place with its id, author and text, and
\* disconnect, its resumption, the remote error, the remote close and the
\* unmount cleanup leave the transcript as it is.
C40_OnlyConnectEmpties ==
  [][ /\ last'.op # "connect"
         => /\ Len(transcript') >= Len(transcript)
            /\ \A i \in DOMAIN transcript :
                 [transcript'[i] EXCEPT !.feedback = "none"]
                   = [transcript[i] EXCEPT !.feedback = "none"]
      /\ last'.op \in {"disconnect", "disconnected", "error", "close", "unmount"}
         => transcript' = transcript ]_vars

C40_Witness ==
  /\ last.op \in {"disconnect", "error", "close"}
  /\ Len(transcript) = MaxTurns
  /\ status \in {"idle", "error"}

=============================================================================
